---- MODULE Spec2Model ----
(***************************************************************************)
(* Stock Data Dashboard (src/app.py): the upload parser, the market data   *)
(* fetch loop, the cumulative change transform and the two Dash callbacks  *)
(* update_options and update_graph, as a state machine over the            *)
(* dashboard's component properties.                                       *)
(*                                                                         *)
(* Python's None is the empty tuple and a present value x is <<x>>.        *)
(* A float is a record [k, n, d]: k = "fin" with the exact fraction n/d,   *)
(* or k = "inf" / "nan" (IEEE results of x/0 and 0/0).                     *)
(***************************************************************************)
EXTENDS Integers, Sequences, FiniteSets, TLC

\* ------------------------------------------------------------- bounds
\* longest 'Stock' column and longest selection the functions are called
\* with on their own
MaxLen == 2
\* longest table handed to calculate_cumulative_change on its own
MaxRows == 3
\* largest close price of such a table
MaxClose == 2

None == <<>>
Some(x) == <<x>>
IsNone(o) == o = <<>>
Get(o) == o[1]

\* ------------------------------------------------------------- floats
Abs(x) == IF x < 0 THEN -x ELSE x

RECURSIVE Gcd(_, _)
Gcd(a, b) == IF b = 0 THEN a ELSE Gcd(b, a % b)

Fin(n, d) ==
    LET g == Gcd(Abs(n), d)
    IN  [k |-> "fin", n |-> n \div g, d |-> d \div g]
Zero == Fin(0, 1)
Inf == [k |-> "inf", n |-> 0, d |-> 1]
NaN == [k |-> "nan", n |-> 0, d |-> 1]
isna(x) == x.k = "nan"

\* float addition; no negative infinity arises from non-negative prices
FAdd(x, y) ==
    IF x.k = "nan" \/ y.k = "nan" THEN NaN
    ELSE IF x.k = "inf" \/ y.k = "inf" THEN Inf
    ELSE Fin(x.n * y.d + y.n * x.d, x.d * y.d)

\* float division of two non-negative prices
FDiv(a, b) ==
    IF b = 0 THEN (IF a = 0 THEN NaN ELSE Inf) ELSE Fin(a, b)

\* ------------------------------------------------------------- dates
\* trading days are numbered; strftime('%Y-%m-%d') and pd.to_datetime
\* convert between a day and its ISO text
IsoDate == <<"2024-01-01", "2024-01-02", "2024-01-03", "2024-01-04">>
Days == 1..Len(IsoDate)
strftime(d) == IsoDate[d]
to_datetime(s) == CHOOSE d \in Days : IsoDate[d] = s

\* ------------------------------------------- calculate_cumulative_change
\* index of the previous row of the same Name (0: none), the row that
\* groupby('Name') shifts onto row i
PrevRow(df, i) ==
    LET same == {j \in 1..(i - 1) : df[j].Name = df[i].Name}
    IN  IF same = {} THEN 0 ELSE CHOOSE j \in same : \A h \in same : h <= j

\* df.groupby('Name')['Close'].pct_change(): close / previous close - 1
pct_change(df, i) ==
    LET p == PrevRow(df, i)
    IN  IF p = 0 THEN NaN
        ELSE FAdd(FDiv(df[i].Close, df[p].Close), Fin(-1, 1))

\* Adjusted_Change with the fault of a strict comparison: the change on the
\* cutoff date itself is kept
Adjusted_Change_strict(df, cutoff_date, i) ==
    IF df[i].Date < to_datetime(cutoff_date) THEN Zero ELSE pct_change(df, i)

\* the row lambda: 0 if row['Date'] <= cutoff else row['Change']
Adjusted_Change(df, cutoff_date, i) ==
    IF df[i].Date <= to_datetime(cutoff_date) THEN Zero ELSE pct_change(df, i)

\* groupby('Name').cumsum(): the group's running sum after row i; a NaN
\* entry is skipped and leaves the sum as it was
RECURSIVE cumsum_accum(_, _, _)
cumsum_accum(df, cutoff_date, i) ==
    LET p == PrevRow(df, i)
        before == IF p = 0 THEN Zero ELSE cumsum_accum(df, cutoff_date, p)
        val == Adjusted_Change(df, cutoff_date, i)
    IN  IF isna(val) THEN before ELSE FAdd(before, val)

\* the cumsum column: NaN where the entry is NaN, else the running sum
cumsum(df, cutoff_date, i) ==
    IF isna(Adjusted_Change(df, cutoff_date, i)) THEN NaN
    ELSE cumsum_accum(df, cutoff_date, i)

fillna0(x) == IF isna(x) THEN Zero ELSE x

calculate_cumulative_change(df, cutoff_date) ==
    [i \in 1..Len(df) |->
        [Date |-> df[i].Date, Name |-> df[i].Name,
         Cumulative_Change |-> fillna0(cumsum(df, cutoff_date, i))]]

\* ------------------------------------------------------------- provider
\* the market data provider's daily history (Date, Open, Close, Volume);
\* ZZZZ is absent from the provider's universe
Market ==
    [AAA |-> <<[Date |-> 1, Open |-> 99, Close |-> 100, Volume |-> 10],
               [Date |-> 2, Open |-> 100, Close |-> 102, Volume |-> 12],
               [Date |-> 3, Open |-> 102, Close |-> 101, Volume |-> 11]>>,
     BBB |-> <<[Date |-> 2, Open |-> 40, Close |-> 50, Volume |-> 7],
               [Date |-> 3, Open |-> 50, Close |-> 55, Volume |-> 9],
               [Date |-> 4, Open |-> 55, Close |-> 55, Volume |-> 8]>>,
     ZZZZ |-> <<>>]
Tickers == DOMAIN Market

InRange(row, start_date, end_date) ==
    Get(start_date) <= row.Date /\ row.Date < Get(end_date)

\* what one yf.download(stock, start=, end=) call can do: raise (network or
\* lookup failure), or return the rows of the history with
\* start <= Date < end, none for a ticker or a window without data
yf_download(stock, start_date, end_date) ==
    {[raises |-> TRUE, rows |-> <<>>],
     [raises |-> FALSE,
      rows |-> SelectSeq(Market[stock],
                         LAMBDA row : InRange(row, start_date, end_date))]}

\* one response per loop iteration of download_stock_data
RECURSIVE Responses(_, _, _)
Responses(stock_list, start_date, end_date) ==
    IF stock_list = <<>> THEN {<<>>}
    ELSE {<<first>> \o rest :
            first \in yf_download(Head(stock_list), start_date, end_date),
            rest \in Responses(Tail(stock_list), start_date, end_date)}

\* ------------------------------------------------------------- parse_csv
endswith_csv(filename) == filename \in {"stock_list.csv", "tickers.csv"}

Raised == [raised |-> TRUE, df |-> None, message |-> ""]

\* contents is the list contents.split(',') yields; its second part is the
\* base64 payload, described by what decoding and parsing it gives
parse_csv(contents, filename) ==
    IF IsNone(contents) \/ ~endswith_csv(Get(filename))
    THEN [raised |-> FALSE, df |-> None,
          message |-> "Please upload a valid CSV file."]
    ELSE IF Len(Get(contents)) # 2
    THEN Raised   \* ValueError: content_type, content_string = ...
    ELSE LET content_string == Get(contents)[2]
         IN  IF ~content_string.padding_ok
             THEN Raised   \* binascii.Error from base64.b64decode
             ELSE IF ~content_string.utf8_ok \/ ~content_string.csv_ok
             THEN [raised |-> FALSE, df |-> None,
                   message |-> "Error parsing CSV"]
             ELSE IF "Stock" \notin content_string.columns
             THEN [raised |-> FALSE, df |-> None,
                   message |-> "CSV must contain a 'Stock' column."]
             ELSE [raised |-> FALSE, df |-> Some(content_string.Stock),
                   message |-> "Uploaded successfully."]

\* --------------------------------------------------- download_stock_data
\* data[['Date', 'Close', 'Name']] with data['Name'] = stock
frame(stock, rows) ==
    [i \in 1..Len(rows) |->
        [Date |-> rows[i].Date, Close |-> rows[i].Close, Name |-> stock]]

RECURSIVE concat(_)
concat(frames) ==
    IF frames = <<>> THEN <<>> ELSE Head(frames) \o concat(Tail(frames))

\* download_loop with the fault of ending at the first failure
RECURSIVE download_loop_abort(_, _, _, _, _)
download_loop_abort(stock_list, data, i, all_data, errors) ==
    IF i > Len(stock_list) THEN [all_data |-> all_data, errors |-> errors]
    ELSE IF data[i].raises
    THEN [all_data |-> all_data,
          errors |-> Append(errors, <<stock_list[i], "Error">>)]
    ELSE IF data[i].rows = <<>>
    THEN [all_data |-> all_data,
          errors |-> Append(errors, <<stock_list[i], "No data available">>)]
    ELSE download_loop_abort(stock_list, data, i + 1,
             Append(all_data, frame(stock_list[i], data[i].rows)), errors)

\* the for loop from its i-th iteration on; data[i] is what the i-th
\* provider call does
RECURSIVE download_loop(_, _, _, _, _)
download_loop(stock_list, data, i, all_data, errors) ==
    IF i > Len(stock_list) THEN [all_data |-> all_data, errors |-> errors]
    ELSE IF data[i].raises
    THEN download_loop(stock_list, data, i + 1, all_data,
             Append(errors, <<stock_list[i], "Error">>))
    ELSE IF data[i].rows = <<>>
    THEN download_loop(stock_list, data, i + 1, all_data,
             Append(errors, <<stock_list[i], "No data available">>))
    ELSE download_loop(stock_list, data, i + 1,
             Append(all_data, frame(stock_list[i], data[i].rows)), errors)

\* download_stock_data with the fault of returning an empty table, not
\* None, when no ticker produced data
download_stock_data_empty_table(stock_list, data) ==
    LET end == download_loop(stock_list, data, 1, <<>>, <<>>)
    IN  [df |-> Some(concat(end.all_data)), errors |-> end.errors]

download_stock_data(stock_list, data) ==
    LET end == download_loop(stock_list, data, 1, <<>>, <<>>)
    IN  IF end.all_data = <<>>
        THEN [df |-> None,
              errors |-> IF end.errors # <<>> THEN end.errors
                         ELSE <<<<"", "No valid data for any stock">>>>]
        ELSE [df |-> Some(concat(end.all_data)), errors |-> end.errors]

\* ------------------------------------------------------------- callbacks
RECURSIVE sorted(_)
sorted(S) ==
    IF S = {} THEN <<>>
    ELSE LET m == CHOOSE x \in S : \A y \in S : x <= y
         IN  <<m>> \o sorted(S \ {m})

Range(seq) == {seq[i] : i \in 1..Len(seq)}

\* a status string: its leading text and the comma-joined errors after it
Msg(text, errors) == [text |-> text, errors |-> errors]

\* what a run of a callback leaves behind: the values it returns (out),
\* whether it raised instead, the tickers it called the provider with, the
\* table it fetched and the cutoff it handed to calculate_cumulative_change
Return(out, calls, fetched, cutoff) ==
    [raised |-> FALSE, out |-> out, calls |-> calls, fetched |-> fetched,
     cutoff |-> cutoff]
Raise == [raised |-> TRUE, out |-> <<>>, calls |-> <<>>, fetched |-> None,
          cutoff |-> None]

Options(no, nv, co, cv, msg) ==
    [name_options |-> no, name_value |-> nv, cutoff_options |-> co,
     cutoff_value |-> cv, output_message |-> msg]

\* [{'label': stock, 'value': stock} for stock in stock_list]
stock_options(stock_list) ==
    [i \in 1..Len(stock_list) |->
        [label |-> stock_list[i], value |-> stock_list[i]]]

\* cutoff_options_of with the fault of offering every calendar day
cutoff_options_all_days(df) ==
    [i \in 1..Len(IsoDate) |-> [label |-> IsoDate[i], value |-> IsoDate[i]]]

cutoff_options_of(df) ==
    LET dates == sorted({row.Date : row \in Range(df)})
    IN  [i \in 1..Len(dates) |->
            [label |-> strftime(dates[i]), value |-> strftime(dates[i])]]

update_options(contents, filename, start_date, end_date, data) ==
    IF IsNone(contents) \/ IsNone(start_date) \/ IsNone(end_date)
    THEN Return(Options(<<>>, <<>>, <<>>, None,
                    Msg("Upload a CSV and select dates to proceed.", <<>>)),
                <<>>, None, None)
    ELSE LET parsed == parse_csv(contents, filename)
         IN  IF parsed.raised THEN Raise
             ELSE IF IsNone(parsed.df)
             THEN Return(Options(<<>>, <<>>, <<>>, None,
                             Msg(parsed.message, <<>>)),
                         <<>>, None, None)
             ELSE
    LET stock_list == Get(parsed.df)
        got == download_stock_data(stock_list, data)
    IN  IF IsNone(got.df)
        THEN Return(Options(<<>>, <<>>, <<>>, None,
                        Msg(parsed.message, got.errors)),
                    stock_list, None, None)
        ELSE LET cutoff_options == cutoff_options_of(Get(got.df))
                 default_cutoff ==
                     IF cutoff_options # <<>>
                     THEN Some(cutoff_options[1].value) ELSE None
             IN  Return(Options(stock_options(stock_list),
                                SubSeq(stock_list, 1, 1),
                                cutoff_options, default_cutoff,
                                Msg(parsed.message, got.errors)),
                        stock_list, got.df, None)

\* valid_names_of with the fault of keeping the selection unfiltered
valid_names_unfiltered(selected_names, stock_list) == selected_names

\* [name for name in selected_names if name in stock_list]
valid_names_of(selected_names, stock_list) ==
    SelectSeq(selected_names, LAMBDA name : name \in Range(stock_list))

Placeholder(title, errors) ==
    [kind |-> "placeholder", title |-> Msg(title, errors), rows |-> <<>>]

update_graph(contents, filename, start_date, end_date, cutoff_date, selected_names, data) ==
    IF IsNone(contents) \/ IsNone(start_date) \/ IsNone(end_date)
       \/ IsNone(cutoff_date) \/ selected_names = <<>>
    THEN Return([figure |-> Placeholder(
                     "Upload a CSV, select dates, cutoff, and stocks", <<>>),
                 processing_status |-> Msg("", <<>>)],
                <<>>, None, None)
    ELSE LET parsed == parse_csv(contents, filename)
         IN  IF parsed.raised THEN Raise
             ELSE IF IsNone(parsed.df)
             THEN Return([figure |-> Placeholder(parsed.message, <<>>),
                          processing_status |-> Msg("", <<>>)],
                         <<>>, None, None)
             ELSE
    LET stock_list == Get(parsed.df)
        valid_names == valid_names_of(selected_names, stock_list)
    IN  IF valid_names = <<>>
        THEN Return([figure |-> Placeholder("No valid stocks selected", <<>>),
                     processing_status |-> Msg("", <<>>)],
                    <<>>, None, None)
        ELSE LET got == download_stock_data(valid_names, data)
             IN  IF IsNone(got.df)
                 THEN Return([figure |-> Placeholder(
                                  "No data available. Errors:", got.errors),
                              processing_status |-> Msg("", <<>>)],
                             valid_names, None, None)
                 ELSE Return(
                     [figure |->
                         [kind |-> "line",
                          title |-> Msg("Cumulative Change", <<>>),
                          rows |-> calculate_cumulative_change(
                                       Get(got.df), Get(cutoff_date))],
                      processing_status |->
                          Msg("Data loaded successfully.", got.errors)],
                     valid_names, got.df, cutoff_date)

\* the provider responses a run of update_options can meet: one per ticker
\* of the parsed list, none when the run returns before the download
options_data(contents, filename, start_date, end_date) ==
    IF IsNone(contents) \/ IsNone(start_date) \/ IsNone(end_date)
    THEN {<<>>}
    ELSE LET parsed == parse_csv(contents, filename)
         IN  IF parsed.raised \/ IsNone(parsed.df) THEN {<<>>}
             ELSE Responses(Get(parsed.df), start_date, end_date)

graph_data(contents, filename, start_date, end_date, cutoff_date, selected_names) ==
    IF IsNone(contents) \/ IsNone(start_date) \/ IsNone(end_date)
       \/ IsNone(cutoff_date) \/ selected_names = <<>>
    THEN {<<>>}
    ELSE LET parsed == parse_csv(contents, filename)
         IN  IF parsed.raised \/ IsNone(parsed.df) THEN {<<>>}
             ELSE Responses(valid_names_of(selected_names, Get(parsed.df)),
                            start_date, end_date)

\* ------------------------------------------------------------- state
VARIABLES
    contents,           \* upload-data.contents
    filename,           \* upload-data.filename
    start_date,         \* date-picker-range.start_date
    end_date,           \* date-picker-range.end_date
    cutoff_options,     \* cutoff-date-dropdown.options
    cutoff_value,       \* cutoff-date-dropdown.value
    name_options,       \* name-dropdown.options
    name_value,         \* name-dropdown.value
    figure,             \* line-plot.figure
    output_message,     \* output-message.children
    processing_status,  \* processing-status.children
    ran,                \* per callback, what its latest run did
    arg,                \* a function called on its own: its arguments
    result              \* and what it returned

props == <<contents, filename, start_date, end_date, cutoff_options,
           cutoff_value, name_options, name_value, figure, output_message,
           processing_status>>
vars == <<contents, filename, start_date, end_date, cutoff_options,
          cutoff_value, name_options, name_value, figure, output_message,
          processing_status, ran, arg, result>>

\* ------------------------------------------------------------- inputs
RECURSIVE SeqsUpTo(_, _)
SeqsUpTo(S, n) ==
    IF n = 0 THEN {<<>>}
    ELSE LET shorter == SeqsUpTo(S, n - 1)
         IN  shorter \cup {Append(q, x) : q \in shorter, x \in S}

StockLists == SeqsUpTo(Tickers, MaxLen)

Payload(padding_ok, utf8_ok, csv_ok, columns, Stock) ==
    [padding_ok |-> padding_ok, utf8_ok |-> utf8_ok, csv_ok |-> csv_ok,
     columns |-> columns, Stock |-> Stock]
File(parts, name) == [contents |-> Some(parts), filename |-> Some(name)]

\* the 'Stock' columns of the files the dashboard is driven with
ExampleLists ==
    {<<>>, <<"AAA">>, <<"ZZZZ">>, <<"AAA", "BBB">>, <<"BBB", "AAA">>,
     <<"ZZZZ", "AAA">>, <<"AAA", "AAA">>}

ValidUpload(stock_list) ==
    File(<<"data:text/csv;base64",
           Payload(TRUE, TRUE, TRUE, {"Stock"}, stock_list)>>,
         "stock_list.csv")

\* present but invalid: wrong extension, no comma or two commas in the
\* data URL, bad base64 padding, bytes that are not UTF-8, text that is not
\* CSV, no 'Stock' column
InvalidUploads ==
    {File(<<"data:text/plain;base64",
            Payload(TRUE, TRUE, TRUE, {"Stock"}, <<"AAA">>)>>,
          "stock_list.txt"),
     File(<<"data:text/csv;base64">>, "stock_list.csv"),
     File(<<"data:text/csv;charset=utf-8",
            Payload(TRUE, TRUE, TRUE, {"Stock"}, <<"AAA">>),
            Payload(TRUE, TRUE, TRUE, {"Stock"}, <<"AAA">>)>>,
          "stock_list.csv"),
     File(<<"data:text/csv;base64",
            Payload(FALSE, TRUE, TRUE, {}, <<>>)>>, "stock_list.csv"),
     File(<<"data:text/csv;base64",
            Payload(TRUE, FALSE, TRUE, {}, <<>>)>>, "stock_list.csv"),
     File(<<"data:text/csv;base64",
            Payload(TRUE, TRUE, FALSE, {}, <<>>)>>, "stock_list.csv"),
     File(<<"data:text/csv;base64",
            Payload(TRUE, TRUE, TRUE, {"Ticker"}, <<>>)>>, "tickers.csv")}

Uploads == {ValidUpload(l) : l \in ExampleLists} \cup InvalidUploads

\* the date picker's choices: the window's first day and the day after its
\* last
StartDates == {1, 4}
EndDates == {5}

\* ------------------------------------------------------------- dashboard
\* the page once loaded: app.layout, and what both callbacks, which Dash
\* runs on it, return
Loaded ==
    LET ro == update_options(None, None, Some(1), Some(5), <<>>)
        rg == update_graph(None, None, Some(1), Some(5), None, <<>>, <<>>)
    IN  /\ contents = None
        /\ filename = None
        /\ start_date = Some(1)
        /\ end_date = Some(5)
        /\ cutoff_options = ro.out.cutoff_options
        /\ cutoff_value = ro.out.cutoff_value
        /\ name_options = ro.out.name_options
        /\ name_value = ro.out.name_value
        /\ output_message = ro.out.output_message
        /\ figure = rg.out.figure
        /\ processing_status = rg.out.processing_status
        /\ ran = [update_options |-> ro, update_graph |-> rg]

Init ==
    /\ Loaded
    /\ arg = [fn |-> "dashboard"]
    /\ result = None

\* a run of update_graph on the inputs given; a callback that raises
\* updates nothing
RunGraph(c, f, s, e, cutoff, names, ro) ==
    \E data \in graph_data(c, f, s, e, cutoff, names) :
        LET rg == update_graph(c, f, s, e, cutoff, names, data)
        IN  /\ ran' = [update_options |-> ro, update_graph |-> rg]
            /\ IF rg.raised
               THEN UNCHANGED <<figure, processing_status>>
               ELSE /\ figure' = rg.out.figure
                    /\ processing_status' = rg.out.processing_status

\* upload or date change: Dash runs update_options, sets the dropdowns from
\* what it returns, then runs update_graph, whose inputs they are
RunBoth(c, f, s, e) ==
    \E data \in options_data(c, f, s, e) :
        LET ro == update_options(c, f, s, e, data)
        IN  IF ro.raised
            THEN /\ UNCHANGED <<name_options, name_value, cutoff_options,
                                cutoff_value, output_message>>
                 /\ RunGraph(c, f, s, e, cutoff_value, name_value, ro)
            ELSE /\ name_options' = ro.out.name_options
                 /\ name_value' = ro.out.name_value
                 /\ cutoff_options' = ro.out.cutoff_options
                 /\ cutoff_value' = ro.out.cutoff_value
                 /\ output_message' = ro.out.output_message
                 /\ RunGraph(c, f, s, e, ro.out.cutoff_value,
                             ro.out.name_value, ro)

Upload(file) ==
    /\ contents' = file.contents
    /\ filename' = file.filename
    /\ RunBoth(file.contents, file.filename, start_date, end_date)
    /\ UNCHANGED <<start_date, end_date, arg, result>>

PickDates(s, e) ==
    /\ start_date' = Some(s)
    /\ end_date' = Some(e)
    /\ RunBoth(contents, filename, Some(s), Some(e))
    /\ UNCHANGED <<contents, filename, arg, result>>

ClearDates ==
    /\ start_date' = None
    /\ end_date' = None
    /\ RunBoth(contents, filename, None, None)
    /\ UNCHANGED <<contents, filename, arg, result>>

\* the user picks one of the offered cutoff dates
SelectCutoff(i) ==
    /\ i \in 1..Len(cutoff_options)
    /\ cutoff_value' = Some(cutoff_options[i].value)
    /\ RunGraph(contents, filename, start_date, end_date,
                Some(cutoff_options[i].value), name_value,
                ran["update_options"])
    /\ UNCHANGED <<contents, filename, start_date, end_date, cutoff_options,
                   name_options, name_value, output_message, arg, result>>

\* the user's picks among the offered tickers, in the order picked
Selections(options) ==
    {sel \in SeqsUpTo({o.value : o \in Range(options)}, Len(options)) :
        \A i, j \in 1..Len(sel) : sel[i] = sel[j] => i = j}

SelectNames(sel) ==
    /\ name_value' = sel
    /\ RunGraph(contents, filename, start_date, end_date, cutoff_value, sel,
                ran["update_options"])
    /\ UNCHANGED <<contents, filename, start_date, end_date, cutoff_options,
                   cutoff_value, name_options, output_message, arg, result>>

Next ==
    \/ \E file \in Uploads : Upload(file)
    \/ \E s \in StartDates, e \in EndDates : PickDates(s, e)
    \/ ClearDates
    \/ \E i \in 1..Len(IsoDate) : SelectCutoff(i)
    \/ \E sel \in Selections(name_options) : SelectNames(sel)

Spec == Init /\ [][Next]_vars

\* ------------------------------------------------ the functions on their own
\* a function of the module called once on arguments of any shape its
\* callers can send; the dashboard's properties stay as loaded
Windows == {<<Some(s), Some(e)>> : s \in StartDates, e \in EndDates}

DownloadCalls ==
    UNION {{[fn |-> "download_stock_data", stock_list |-> l, data |-> d] :
               d \in UNION {Responses(l, w[1], w[2]) : w \in Windows}} :
           l \in StockLists}

\* tables of two tickers over two days, the first at or before either
\* cutoff, with prices that include 0
CalcNames == {"AAA", "BBB"}
CalcDates == {1, 2}
CalcCloses == 0..MaxClose
CalcRows ==
    [Date : CalcDates, Close : CalcCloses, Name : CalcNames]
NoUpload == [contents |-> None, filename |-> None]
GraphUploads ==
    {ValidUpload(l) : l \in StockLists} \cup InvalidUploads \cup {NoUpload}
GraphCutoffs == {None} \cup {Some(strftime(d)) : d \in Days}

\* every upload, window, cutoff and selection, each with every provider
\* response the call can meet
InitCalls ==
    /\ Loaded
    /\ \/ arg \in DownloadCalls
       \/ \E df \in SeqsUpTo(CalcRows, MaxRows), c \in CalcDates :
              arg = [fn |-> "calculate_cumulative_change", df |-> df,
                     cutoff_date |-> strftime(c)]
       \/ \E u \in GraphUploads, w \in Windows \cup {<<None, None>>},
             c \in GraphCutoffs, sel \in StockLists :
              \E d \in graph_data(u.contents, u.filename, w[1], w[2], c, sel) :
                  arg = [fn |-> "update_graph",
                         call |-> [contents |-> u.contents,
                                   filename |-> u.filename,
                                   start_date |-> w[1], end_date |-> w[2],
                                   cutoff_date |-> c, selected_names |-> sel],
                         data |-> d]
    /\ result = None

CallDownload ==
    /\ arg.fn = "download_stock_data"
    /\ IsNone(result)
    /\ result' = Some(download_stock_data(arg.stock_list, arg.data))
    /\ UNCHANGED <<props, ran, arg>>

CallCalc ==
    /\ arg.fn = "calculate_cumulative_change"
    /\ IsNone(result)
    /\ result' = Some(calculate_cumulative_change(arg.df, arg.cutoff_date))
    /\ UNCHANGED <<props, ran, arg>>

CallGraph ==
    /\ arg.fn = "update_graph"
    /\ IsNone(result)
    /\ result' = Some(update_graph(arg.call.contents, arg.call.filename,
                          arg.call.start_date, arg.call.end_date,
                          arg.call.cutoff_date, arg.call.selected_names,
                          arg.data))
    /\ UNCHANGED <<props, ran, arg>>

NextCalls == CallDownload \/ CallCalc \/ CallGraph

SpecCalls == InitCalls /\ [][NextCalls]_vars

\* ------------------------------------------------------------- claims
Returned(fn) == arg.fn = fn /\ ~IsNone(result)

Failed(data) == {i \in DOMAIN data : data[i].raises \/ data[i].rows = <<>>}
Fetched(data) == DOMAIN data \ Failed(data)

RECURSIVE RowsFetched(_, _)
RowsFetched(data, n) ==
    IF n = 0 THEN 0
    ELSE RowsFetched(data, n - 1)
         + (IF n \in Failed(data) THEN 0 ELSE Len(data[n].rows))

\* the k-th smallest member of a set of numbers
Kth(S, k) == sorted(S)[k]

Reason(response) == IF response.raises THEN "Error" ELSE "No data available"

\* C1: download_stock_data visits every ticker whatever the others did: the
\* failed tickers (empty data or an exception) put exactly one entry each
\* in the error list, in list order, and no row in the table; every ticker
\* with data has all of its rows in the table, which holds nothing else.
C1_EveryTickerVisited ==
    Returned("download_stock_data") =>
        LET l == arg.stock_list
            data == arg.data
            r == Get(result)
            table == IF IsNone(r.df) THEN <<>> ELSE Get(r.df)
        IN  /\ l # <<>> =>
                /\ Len(r.errors) = Cardinality(Failed(data))
                /\ \A k \in 1..Len(r.errors) :
                       r.errors[k] = <<l[Kth(Failed(data), k)],
                                       Reason(data[Kth(Failed(data), k)])>>
            /\ Fetched(data) # {} => ~IsNone(r.df)
            /\ Len(table) = RowsFetched(data, Len(data))
            /\ \A i \in Fetched(data) : \A j \in 1..Len(data[i].rows) :
                   \E t \in 1..Len(table) :
                       /\ table[t].Name = l[i]
                       /\ table[t].Date = data[i].rows[j].Date
                       /\ table[t].Close = data[i].rows[j].Close
            /\ \A t \in 1..Len(table) :
                   \E i \in Fetched(data) : table[t].Name = l[i]

\* a ticker with data after a ticker that failed
C1_Witness ==
    /\ Returned("download_stock_data")
    /\ \E i, j \in DOMAIN arg.data :
           /\ i < j
           /\ i \in Failed(arg.data)
           /\ j \in Fetched(arg.data)
           /\ arg.stock_list[j] \in {row.Name : row \in Range(Get(Get(result).df))}

\* C5: download_stock_data returns None in place of the table exactly when
\* no ticker produced data, then with one error per ticker in list order
\* (the default message alone for an empty list), and otherwise a table
\* of at least one row; update_graph answers None with a placeholder
\* figure whose title carries those errors, and does not raise.
C5_NoDataSignal ==
    /\ Returned("download_stock_data") =>
        LET l == arg.stock_list
            data == arg.data
            r == Get(result)
        IN  /\ IsNone(r.df) <=> Fetched(data) = {}
            /\ IsNone(r.df) =>
                /\ r.errors # <<>>
                /\ l # <<>> =>
                       /\ Len(r.errors) = Len(l)
                       /\ \A i \in 1..Len(l) :
                              r.errors[i] = <<l[i], Reason(data[i])>>
                /\ l = <<>> =>
                       r.errors = <<<<"", "No valid data for any stock">>>>
            /\ ~IsNone(r.df) => Len(Get(r.df)) >= 1
    /\ Returned("update_graph") =>
        LET data == arg.data
            r == Get(result)
        IN  (data # <<>> /\ Fetched(data) = {}) =>
                /\ ~r.raised
                /\ r.out.figure.kind = "placeholder"
                /\ r.out.figure.rows = <<>>
                /\ Len(r.out.figure.title.errors) = Len(data)
                /\ \A i \in 1..Len(data) :
                       r.out.figure.title.errors[i]
                           = <<r.calls[i], Reason(data[i])>>

\* update_graph met a download in which both selected tickers failed
C5_Witness ==
    /\ Returned("update_graph")
    /\ Len(arg.data) = 2
    /\ Fetched(arg.data) = {}
    /\ Get(result).out.figure.kind = "placeholder"
    /\ Len(Get(result).out.figure.title.errors) = 2

\* the rows of row i's ticker up to row i that count towards its sum: not
\* the ticker's first row, and dated strictly after the cutoff
Counted(df, cutoff_date, i) ==
    {j \in 1..i : /\ df[j].Name = df[i].Name
                  /\ \E h \in 1..(j - 1) : df[h].Name = df[j].Name
                  /\ df[j].Date > to_datetime(cutoff_date)}

\* (close[j] - close[j-1]) / close[j-1] summed over the rows S
RECURSIVE SumOfChanges(_, _)
SumOfChanges(df, S) ==
    IF S = {} THEN Zero
    ELSE LET j == CHOOSE x \in S : TRUE
             before == df[PrevRow(df, j)].Close
         IN  FAdd(Fin(df[j].Close - before, before),
                  SumOfChanges(df, S \ {j}))

\* the claimed series of the table df, compared with the series out, on
\* the rows whose sum divides by no zero close
SeriesAsClaimed(df, cutoff_date, out) ==
    /\ Len(out) = Len(df)
    /\ \A i \in 1..Len(df) :
           /\ out[i].Date = df[i].Date
           /\ out[i].Name = df[i].Name
           /\ (\A j \in Counted(df, cutoff_date, i) :
                   df[PrevRow(df, j)].Close # 0)
              => out[i].Cumulative_Change
                     = SumOfChanges(df, Counted(df, cutoff_date, i))

\* C2: for every table and cutoff, the Cumulative_Change of a row of
\* ticker T is the sum of (close[i] - close[i-1]) / close[i-1] over T's
\* rows up to it that are not T's first row and are dated strictly after
\* the cutoff; T's first row adds zero and other tickers' rows add nothing.
\* Checked on tables called with directly and on those update_graph passes.
C2_RunningSum ==
    /\ Returned("calculate_cumulative_change") =>
           SeriesAsClaimed(arg.df, arg.cutoff_date, Get(result))
    /\ (Returned("update_graph") /\ ~IsNone(Get(result).cutoff)) =>
           SeriesAsClaimed(Get(Get(result).fetched), Get(Get(result).cutoff),
                           Get(result).out.figure.rows)

\* the example of the specification: AAA closes 100, 102, 101, cutoff on
\* the first date, series 0, 0.02, 0.02 + (101 - 102) / 102
C2_Witness ==
    /\ Returned("update_graph")
    /\ arg.call.selected_names = <<"AAA">>
    /\ arg.call.cutoff_date = Some("2024-01-01")
    /\ ~Get(result).raised
    /\ Get(result).out.figure.kind = "line"
    /\ LET rows == Get(result).out.figure.rows
       IN  /\ Len(rows) = 3
           /\ rows[1].Cumulative_Change = Zero
           /\ rows[2].Cumulative_Change = Fin(2, 100)
           /\ rows[3].Cumulative_Change = FAdd(Fin(2, 100), Fin(-1, 102))

\* C10 as claimed: a previous close of 0 after the cutoff adds nothing; no
\* Cumulative_Change is infinite or undefined, each is the finite sum of
\* the changes that are defined.
C10_ZeroCloseFailsSoft ==
    Returned("calculate_cumulative_change") =>
        \A i \in 1..Len(arg.df) :
            LET defined == {j \in Counted(arg.df, arg.cutoff_date, i) :
                               arg.df[PrevRow(arg.df, j)].Close # 0}
            IN  /\ Get(result)[i].Cumulative_Change.k = "fin"
                /\ Get(result)[i].Cumulative_Change
                       = SumOfChanges(arg.df, defined)

\* C3 as claimed: every plotted row dated at or before the cutoff has
\* Cumulative_Change exactly 0, whatever the selection.
C3_ZeroUpToCutoff ==
    (Returned("update_graph") /\ ~IsNone(Get(result).cutoff)) =>
        \A row \in Range(Get(result).out.figure.rows) :
            row.Date <= to_datetime(Get(Get(result).cutoff))
                => row.Cumulative_Change = Zero

\* the uploaded 'Stock' column of an update_graph call, empty when the
\* upload does not parse
UploadedList(call) ==
    IF IsNone(call.contents) THEN <<>>
    ELSE LET parsed == parse_csv(call.contents, call.filename)
         IN  IF parsed.raised \/ IsNone(parsed.df) THEN <<>>
             ELSE Get(parsed.df)

\* C9: every ticker update_graph plots or calls the provider for is in the
\* selection and in the uploaded list; with no selected name in the
\* uploaded list the provider is not called.
C9_OnlySelectedUploaded ==
    Returned("update_graph") =>
        LET r == Get(result)
            allowed == Range(arg.call.selected_names)
                           \cap Range(UploadedList(arg.call))
        IN  /\ Range(r.calls) \subseteq allowed
            /\ ~r.raised =>
                   {row.Name : row \in Range(r.out.figure.rows)}
                       \subseteq allowed
            /\ allowed = {} => r.calls = <<>>

\* a plot of a selection that names a ticker outside the uploaded list
C9_Witness ==
    /\ Returned("update_graph")
    /\ ~Get(result).raised
    /\ Get(result).out.figure.kind = "line"
    /\ \E name \in Range(arg.call.selected_names) :
           name \notin Range(UploadedList(arg.call))

\* ---------------------------------------------- claims about the dashboard
Values(options) == [i \in 1..Len(options) |-> options[i].value]

\* C4 as claimed: on an upload that is present but invalid, update_options
\* returns empty options, an empty selection, no cutoff and a message, and
\* update_graph a placeholder figure; neither raises nor calls the provider.
C4_InvalidUploadShortCircuits ==
    [contents |-> contents, filename |-> filename] \in InvalidUploads =>
        /\ ~ran["update_options"].raised
        /\ ~ran["update_graph"].raised
        /\ ran["update_options"].out.name_options = <<>>
        /\ ran["update_options"].out.name_value = <<>>
        /\ ran["update_options"].out.cutoff_options = <<>>
        /\ ran["update_options"].out.cutoff_value = None
        /\ ran["update_options"].out.output_message.text # ""
        /\ ran["update_graph"].out.figure.kind = "placeholder"
        /\ ran["update_options"].calls = <<>>
        /\ ran["update_graph"].calls = <<>>

\* the dates of a fetched table
DatesOf(fetched) == {row.Date : row \in Range(Get(fetched))}

ReachedCalc == ~IsNone(ran["update_graph"].cutoff)

\* C6 as claimed: the cutoff update_graph hands to
\* calculate_cumulative_change is a date of the observations that same run
\* fetched for the selected tickers.
C6_CutoffAmongOwnDates ==
    ReachedCalc =>
        to_datetime(Get(ran["update_graph"].cutoff))
            \in DatesOf(ran["update_graph"].fetched)

\* C6 as amended: that cutoff is one of the cutoff options on offer, each a
\* date of the observations the latest update_options run fetched for the
\* whole uploaded list.
C6_CutoffAmongOfferedDates ==
    ReachedCalc =>
        /\ ~IsNone(ran["update_options"].fetched)
        /\ ran["update_graph"].cutoff = cutoff_value
        /\ Get(cutoff_value) \in Range(Values(cutoff_options))
        /\ \A v \in Range(Values(cutoff_options)) :
               to_datetime(v) \in DatesOf(ran["update_options"].fetched)

\* a plot whose cutoff the user picked from the options and which is not a
\* date of the selected ticker's own observations
C6_Witness ==
    /\ ReachedCalc
    /\ cutoff_value # ran["update_options"].out.cutoff_value
    /\ to_datetime(Get(ran["update_graph"].cutoff))
           \notin DatesOf(ran["update_graph"].fetched)

\* the latest update_options run offered tickers for the current upload
Offered == ~IsNone(ran["update_options"].fetched)

\* C7 as claimed: a ticker recorded with "No data available" is in no
\* option list update_options returns: not among the ticker options, not in
\* the default selection.
C7_NoDataTickerNotOffered ==
    Offered =>
        \A e \in Range(ran["update_options"].out.output_message.errors) :
            e[2] = "No data available" =>
                /\ e[1] \notin Range(Values(
                                   ran["update_options"].out.name_options))
                /\ e[1] \notin Range(ran["update_options"].out.name_value)

\* the distinct members of a list in the order of their first occurrence
RECURSIVE FirstOccurrences(_)
FirstOccurrences(l) ==
    IF l = <<>> THEN <<>>
    ELSE LET front == FirstOccurrences(SubSeq(l, 1, Len(l) - 1))
             last == l[Len(l)]
         IN  IF last \in Range(front) THEN front ELSE Append(front, last)

\* C8 as claimed: when a ticker has data, the ticker options hold each
\* distinct uploaded symbol exactly once, in the order of first occurrence.
C8_OptionsDeduplicated ==
    Offered =>
        Values(ran["update_options"].out.name_options)
            = FirstOccurrences(UploadedList(
                    [contents |-> contents, filename |-> filename]))

====
